---- MODULE Spec2Model ----
(***************************************************************************)
(* TruthGuardAgent backend: the GCP token refresher (refresh_token.py) and *)
(* the Vertex AI reasoning-engine client (integrations/adk_client_gcp.py). *)
(*                                                                         *)
(* Time is a discrete clock `now`.  A token is identified by the instant   *)
(* the identity provider issued it: Token(t) is the token issued at t and  *)
(* it stays valid for Validity clock units.  Python's None and "" are the  *)
(* two falsy values an environment lookup can give.  Text is a sequence of *)
(* one-character strings.                                                  *)
(***************************************************************************)
EXTENDS Integers, Sequences, FiniteSets, TLC

\* ------------------------------------------------------------------ bounds
MaxTime == 2
MaxInterval == 2
Validity == 2
MaxLines == 2
MaxParts == 1
MaxChunks == 2

\* ---------------------------------------------------------- python values
None == -101
EmptyString == -102
NoExpiry == -103

Threads == {"main", "loop"}
Clients == {"q1", "q2"}

\* the one caller of the specifications that have no concurrent calls
Callers == {"q1"}

Token(t) == t + 1
IsToken(v) == v \notin {None, EmptyString}
TokenExpiry(tok) == (tok - 1) + Validity

\* a token found in the environment as the process starts (a .env file, the
\* shell), issued a validity window before: no refresh of this process made it
PresetToken == Token(0 - Validity)

\* an interval time.sleep() refuses: a negative number (ValueError), or a value
\* that is no number, such as a str taken from a setting (TypeError)
BadInterval == -1

\* the host's time zone: UTC, or a zone east of it whose clocks go forward
\* (daylight saving) at local time DstAt
TimeZones == {"UTC", "local"}
WinterOffset == 1
SummerOffset == 3
DstAt == Validity + 1

UtcOffset(tz, local) ==
    IF tz = "UTC" THEN 0
    ELSE IF local < DstAt THEN WinterOffset
    ELSE SummerOffset

\* datetime.timestamp() of a naive datetime: its fields are read as local time
timestamp(d, tz) == d - UtcOffset(tz, d)

\* token_data as the module defines it
InitialTokenData == [access_token |-> None, expiry |-> 0]

\* `if token is None`: the empty string taken for a token
Falsy_mut(v) == v = None

\* `if not token`
Falsy(v) == v = None \/ v = EmptyString

VARIABLES
    now,          \* the clock
    interval,     \* schedule_refresh's parameter
    host_tz,      \* the time zone of the host
    token_data,   \* refresh_token.token_data
    env,          \* os.environ["GCP_ACCESS_TOKEN"]
    sched_pc,     \* position of the caller inside schedule_refresh
    loop_pc,      \* position of the background thread inside loop()
    rt_pc,        \* position of each thread inside refresh_token()
    creds,        \* each thread's local `creds`
    wake_at,      \* when the loop's time.sleep(interval) is over
    sleeps,       \* number of time.sleep(interval) calls begun so far
    slept_at,     \* when the latest time.sleep(interval) began
    attempts,     \* number of refresh_token() calls made so far
    outcome,      \* how the latest refresh_token() call ended
    snap,         \* the credential as it stood when the latest call began
    any_failed,   \* some refresh_token() call has raised
    any_ok,       \* some refresh_token() call has returned
    late,         \* the clock advanced while the refresher was overdue
    q_pc,         \* position of each query call
    q_meta,       \* call_adk's parameter `metadata`
    q_token,      \* _run's local `token`
    q_read_at,    \* when _run read the token
    q_sent,       \* the request the call has sent
    q_input,      \* what the transport gives the call
    q_data,       \* call_adk's local `data`, the envelope _run returned
    q_result      \* how call_adk ended

refresher_vars == <<interval, host_tz, token_data, env, sched_pc, loop_pc, rt_pc, creds,
                    wake_at, sleeps, slept_at, attempts, outcome, snap, any_failed, any_ok>>
query_vars == <<q_pc, q_meta, q_token, q_read_at, q_sent, q_input, q_data, q_result>>
vars == <<now, late, refresher_vars, query_vars>>

Credential == [access_token |-> token_data.access_token,
               expiry |-> token_data.expiry,
               env |-> env]

NoCreds == [token |-> None, expiry |-> NoExpiry]

\* ------------------------------------------------- schedule_refresh, loop

\* schedule_refresh's `except Exception as e: print(f"... {e}")`: the failure is
\* swallowed and the caller goes on to start the thread, unless the print itself
\* raises (an error text the standard output cannot encode), which ends
\* schedule_refresh with that exception before the thread is started
AfterStartupRefresh(how) == IF how = "failed" THEN {"S50", "raised"} ELSE {"S50"}

\* the loop's `except Exception as e: print(f"... {e}")`: the while loop goes
\* on, unless the print itself raises, which ends loop() and with it the thread
AfterLoopRefresh(how) == IF how = "failed" THEN {"L41", "dead"} ELSE {"L41"}

\* a sleep of twice the interval
WakeTime_mut(t, i) == t + i + i

\* time.sleep(interval)
WakeTime(t, i) == t + i

\* a refresh_token() call begins
BeginRefresh(t) ==
    /\ rt_pc' = [rt_pc EXCEPT ![t] = "R16"]
    /\ attempts' = attempts + 1
    /\ snap' = Credential
    /\ outcome' = "running"

\* refresh_token() returns or raises to its caller, whose except clause runs
EndRefresh(t, how) ==
    /\ rt_pc' = [rt_pc EXCEPT ![t] = "idle"]
    /\ outcome' = how
    /\ any_failed' = (any_failed \/ how = "failed")
    /\ any_ok' = (any_ok \/ how = "ok")
    /\ IF t = "main"
       THEN sched_pc' \in AfterStartupRefresh(how) /\ UNCHANGED loop_pc
       ELSE loop_pc' \in AfterLoopRefresh(how) /\ UNCHANGED sched_pc

\* schedule_refresh: the startup refresh
SchedStart ==
    /\ sched_pc = "S32"
    /\ sched_pc' = "S34"
    /\ BeginRefresh("main")
    /\ UNCHANGED <<now, late, interval, host_tz, token_data, env, loop_pc, creds, wake_at, sleeps, slept_at,
                   any_failed, any_ok, query_vars>>

\* the thread started at the top of schedule_refresh, beside the startup refresh
SpawnAt_mut == {"S34", "S50"}

\* where the caller stands when it starts the thread: past the startup try/except
SpawnAt == {"S50"}

\* a loop that refreshes first and sleeps after
LoopEntry_mut == "L42"

\* where loop() begins: the print and time.sleep(interval) at the top of `while True`
LoopEntry == "L41"

\* schedule_refresh: threading.Thread(target=loop, daemon=True).start() has
\* started the thread.  start() comes back once the new thread has signalled
\* that it runs, so from here on loop() advances beside the caller, which is
\* still inside line 50
SchedSpawn ==
    /\ sched_pc \in SpawnAt
    /\ sched_pc' = "started"
    /\ loop_pc' = LoopEntry
    /\ UNCHANGED <<now, late, interval, host_tz, token_data, env, rt_pc, creds, wake_at, sleeps, slept_at,
                   attempts, outcome, snap, any_failed, any_ok, query_vars>>

\* schedule_refresh: start() comes back and the function returns to its caller,
\* wherever loop() has got to in the meantime
SchedReturn ==
    /\ sched_pc = "started"
    /\ sched_pc' = "returned"
    /\ UNCHANGED <<now, late, interval, host_tz, token_data, env, loop_pc, rt_pc, creds, wake_at, sleeps,
                   slept_at, attempts, outcome, snap, any_failed, any_ok, query_vars>>

\* loop: time.sleep(interval) begins; an interval it refuses makes it raise,
\* outside the loop's try, and the thread ends
LoopSleep ==
    /\ loop_pc = "L41"
    /\ IF interval = BadInterval
       THEN /\ loop_pc' = "dead"
            /\ UNCHANGED <<wake_at, sleeps, slept_at>>
       ELSE /\ loop_pc' = "L42"
            /\ wake_at' = WakeTime(now, interval)
            /\ sleeps' = sleeps + 1
            /\ slept_at' = now
    /\ UNCHANGED <<now, late, interval, host_tz, token_data, env, sched_pc, rt_pc, creds,
                   attempts, outcome, snap, any_failed, any_ok, query_vars>>

\* loop: the sleep is over, refresh_token() is called
LoopWake ==
    /\ loop_pc = "L42"
    /\ now >= wake_at
    /\ loop_pc' = "L45"
    /\ BeginRefresh("loop")
    /\ UNCHANGED <<now, late, interval, host_tz, token_data, env, sched_pc, creds, wake_at, sleeps, slept_at,
                   any_failed, any_ok, query_vars>>

\* ------------------------------------------------------------ refresh_token

\* from_service_account_file: the key file is read, or the read raises
LoadCredentials(t) ==
    /\ rt_pc[t] = "R16"
    /\ \/ /\ rt_pc' = [rt_pc EXCEPT ![t] = "R19"]
          /\ UNCHANGED <<sched_pc, loop_pc, outcome, any_failed, any_ok>>
       \/ EndRefresh(t, "failed")
    /\ UNCHANGED <<now, late, interval, host_tz, token_data, env, creds, wake_at, sleeps, slept_at, attempts,
                   snap, query_vars>>

\* creds.refresh(Request()): the provider issues a token, or the call raises;
\* the provider's answer may carry no expiry (creds.expiry is then None)
FetchToken(t) ==
    /\ rt_pc[t] = "R19"
    /\ \/ /\ \E e \in {now + Validity, NoExpiry} :
                creds' = [creds EXCEPT ![t] = [token |-> Token(now), expiry |-> e]]
          /\ rt_pc' = [rt_pc EXCEPT ![t] = "R21"]
          /\ UNCHANGED <<sched_pc, loop_pc, outcome, any_failed, any_ok>>
       \/ EndRefresh(t, "failed") /\ UNCHANGED creds
    /\ UNCHANGED <<now, late, interval, host_tz, token_data, env, wake_at, sleeps, slept_at, attempts, snap,
                   query_vars>>

\* token_data["access_token"] = creds.token
StoreToken(t) ==
    /\ rt_pc[t] = "R21"
    /\ token_data' = [token_data EXCEPT !.access_token = creds[t].token]
    /\ rt_pc' = [rt_pc EXCEPT ![t] = "R22"]
    /\ UNCHANGED <<now, late, interval, host_tz, env, sched_pc, loop_pc, creds, wake_at, sleeps, slept_at,
                   attempts, outcome, snap, any_failed, any_ok, query_vars>>

\* token_data["expiry"] = creds.expiry.timestamp(); None has no timestamp()
StoreExpiry(t) ==
    /\ rt_pc[t] = "R22"
    /\ IF creds[t].expiry = NoExpiry
       THEN EndRefresh(t, "failed") /\ UNCHANGED token_data
       ELSE /\ token_data' = [token_data EXCEPT !.expiry = timestamp(creds[t].expiry, host_tz)]
            /\ rt_pc' = [rt_pc EXCEPT ![t] = "R25"]
            /\ UNCHANGED <<sched_pc, loop_pc, outcome, any_failed, any_ok>>
    /\ UNCHANGED <<now, late, interval, host_tz, env, creds, wake_at, sleeps, slept_at, attempts, snap,
                   query_vars>>

\* os.environ["GCP_ACCESS_TOKEN"] = creds.token
PublishEnv(t) ==
    /\ rt_pc[t] = "R25"
    /\ env' = creds[t].token
    /\ rt_pc' = [rt_pc EXCEPT ![t] = "R27"]
    /\ UNCHANGED <<now, late, interval, host_tz, token_data, sched_pc, loop_pc, creds,
                   wake_at, sleeps, slept_at, attempts, outcome, snap, any_failed, any_ok, query_vars>>

\* print("[TOKEN REFRESHED ...]"): the line holds a non-ASCII character, which a
\* standard output of another encoding cannot take (UnicodeEncodeError)
PrintRefreshed(t) ==
    /\ rt_pc[t] = "R27"
    /\ \/ EndRefresh(t, "ok")
       \/ EndRefresh(t, "failed")
    /\ UNCHANGED <<now, late, interval, host_tz, token_data, env, creds, wake_at, sleeps, slept_at, attempts,
                   snap, query_vars>>

\* -------------------------------------------------------------------- clock

\* the refresher is not behind: no thread holds a fetched token it has yet to
\* publish, and no token is in force yet or the loop is in a sleep that is not over
OnTime ==
    /\ \A t \in Threads : rt_pc[t] \in {"idle", "R16", "R19"}
    /\ ~IsToken(env) \/ (loop_pc = "L42" /\ now < wake_at)

Tick ==
    /\ now < MaxTime
    /\ now' = now + 1
    /\ late' = (late \/ ~OnTime)
    /\ UNCHANGED <<refresher_vars, query_vars>>

\* --------------------------------------------------------------------- text

UpperCase == <<"A", "B", "C", "D", "E", "F", "G", "H", "I", "J", "K", "L", "M",
               "N", "O", "P", "Q", "R", "S", "T", "U", "V", "W", "X", "Y", "Z">>
LowerCase == <<"a", "b", "c", "d", "e", "f", "g", "h", "i", "j", "k", "l", "m",
               "n", "o", "p", "q", "r", "s", "t", "u", "v", "w", "x", "y", "z">>

\* a text value that is Python's None (a JSON null, an absent text)
PyNone == <<"None">>

\* a text value that is a non-empty list (a JSON array where a string is expected)
PyList == <<"[list]">>

LowerChar(c) ==
    IF \E i \in 1..Len(UpperCase) : UpperCase[i] = c
    THEN LowerCase[CHOOSE i \in 1..Len(UpperCase) : UpperCase[i] = c]
    ELSE c

\* the text compared as it is, its case kept
lower_mut(s) == s

\* str.lower()
lower(s) == [i \in 1..Len(s) |-> LowerChar(s[i])]

\* `needle in hay`
Contains(hay, needle) ==
    \E i \in 0..(Len(hay) - Len(needle)) : SubSeq(hay, i + 1, i + Len(needle)) = needle

\* `final_text or ""`
OrEmpty(t) == IF t = PyNone \/ t = <<>> THEN <<>> ELSE t

kw_legitimate == <<"l", "e", "g", "i", "t", "i", "m", "a", "t", "e">>
kw_verdict_true == <<"v", "e", "r", "d", "i", "c", "t", ":", " ", "t", "r", "u", "e">>
kw_confidence == <<"c", "o", "n", "f", "i", "d", "e", "n", "c", "e", ":", " ", "1", ".", "0">>

\* call_adk: the verdict and the confidence read off the final text
verdict(final_text) ==
    IF \/ Contains(lower(OrEmpty(final_text)), kw_legitimate)
       \/ Contains(lower(OrEmpty(final_text)), kw_verdict_true)
    THEN "verified"
    ELSE "unverified"

confidence(final_text) ==
    IF Contains(lower(OrEmpty(final_text)), kw_confidence) THEN "1.0" ELSE "0.5"

\* ------------------------------------------------------------ stream lines
\* A line of the response is one of:
\*   "empty"      the empty string
\*   "space"      whitespace only
\*   "garbage"    text json.loads rejects with JSONDecodeError
\*   "unloadable" text json.loads rejects with another exception: arrays nested
\*                too deep (RecursionError), an integer of too many digits
\*                (ValueError), bytes of no known encoding (UnicodeDecodeError)
\*   "nonobject"  JSON that is no object (an array, a number, a string, null),
\*                or an object whose content is none: data.get or content.get
\*                raises AttributeError
\*   "badshape"   a JSON object whose parts cannot be walked: parts is null, a
\*                number or a boolean (the for raises TypeError), a part is null,
\*                a number or a boolean (`"text" in part` raises TypeError), or a
\*                part is a string or an array holding "text" (part["text"]
\*                raises TypeError); a parts that is an object with a key
\*                holding "text" is walked as its keys and raises the same
\*   "oddparts"   a JSON object whose parts is no list of objects and is walked
\*                without error: a string or an object (walked as characters,
\*                as keys), or a list of strings and arrays, none holding
\*                "text"; `"text" in part` is false each time, nothing is
\*                appended
\*   "fragment"   a JSON object; parts is its content.parts ([] when absent)
\* A part of a fragment may have a "text" key; a part without one is an object
\* without the key, or a string or an array that does not hold "text".

\* `if line and line.strip()`
IsBlank(line) == line.kind \in {"empty", "space"}

\* json.loads(line), data.get("content", {}), content.get("parts", []) and the
\* loop over the parts: what the line raises
LineRaises(line) ==
    CASE line.kind = "garbage" -> "JSONDecodeError"
      [] line.kind = "unloadable" -> "RecursionError"
      [] line.kind = "nonobject" -> "AttributeError"
      [] line.kind = "badshape" -> "TypeError"
      [] OTHER -> ""

\* for part in parts: if "text" in part: text_parts.append(part["text"])
TextsOf(parts) ==
    LET with_text == SelectSeq(parts, LAMBDA p : p.has_text)
    IN  [i \in 1..Len(with_text) |-> with_text[i].text]

\* the for loop over r.iter_lines(): the text parts gathered, and the exception
\* that ended the loop ("" when it ran to the end of the lines)
RECURSIVE iter_lines(_, _, _)
iter_lines(lines, i, text_parts) ==
    IF i > Len(lines)
    THEN [exc |-> "", text_parts |-> text_parts]
    ELSE IF IsBlank(lines[i])
    THEN iter_lines(lines, i + 1, text_parts)
    ELSE IF LineRaises(lines[i]) = "JSONDecodeError"
    THEN iter_lines(lines, i + 1, text_parts)
    ELSE IF LineRaises(lines[i]) # ""
    THEN [exc |-> LineRaises(lines[i]), text_parts |-> text_parts]
    ELSE iter_lines(lines, i + 1, text_parts \o TextsOf(lines[i].parts))

\* response_text = text_parts[-1] if text_parts else ""
response_text(text_parts) ==
    IF text_parts # <<>> THEN text_parts[Len(text_parts)] ELSE <<>>

\* an envelope that carries the lower-cased text the classification works on
Envelope_mut(text) ==
    [has_logs |-> TRUE,
     logs |-> << [content |-> [parts |-> << [has_text |-> TRUE, text |-> lower(text)] >>]] >>]

\* an envelope whose logs are left empty when there is no text to carry
Envelope_nologs(text) ==
    [has_logs |-> TRUE,
     logs |-> IF text = <<>> THEN <<>>
              ELSE << [content |-> [parts |-> << [has_text |-> TRUE, text |-> text] >>]] >>]

\* {"logs": [{"content": {"parts": [{"text": response_text}]}}]}
Envelope(text) ==
    [has_logs |-> TRUE,
     logs |-> << [content |-> [parts |-> << [has_text |-> TRUE, text |-> text] >>]] >>]

\* no envelope: _run raised; as a dict, one without the key "logs"
NoEnvelope == [has_logs |-> FALSE, logs |-> <<>>]

Raised(exc, msg) == [kind |-> "raise", exc |-> exc, msg |-> msg]
Returned == [kind |-> "return", exc |-> "", msg |-> ""]

\* how requests.post and raise_for_status can end: "body_lost" is a status of
\* 400 or more whose body breaks off, so that reading e.response.text in the
\* except clause (line 68) raises in its turn
FailedTransports == {"timeout", "connection_error", "bad_status", "body_lost"}

\* _run from requests.post on.  transport is how the post ended; the stream is
\* the lines of the body; brk is None, or the number of lines delivered before
\* the connection broke
run(transport, stream, brk) ==
    IF transport = "timeout"
    THEN [how |-> Raised("ADKError", "timeout"), data |-> NoEnvelope]
    ELSE IF transport = "body_lost"
    THEN [how |-> Raised("ChunkedEncodingError", ""), data |-> NoEnvelope]
    ELSE IF transport # "ok"
    THEN [how |-> Raised("ADKError", "http_error"), data |-> NoEnvelope]
    ELSE LET delivered == IF brk = None THEN stream ELSE SubSeq(stream, 1, brk)
             loop == iter_lines(delivered, 1, <<>>)
             text == response_text(loop.text_parts)
         IN  IF loop.exc # ""
             THEN [how |-> Raised(loop.exc, ""), data |-> NoEnvelope]
             ELSE IF brk # None
             THEN [how |-> Raised("ConnectionError", ""), data |-> NoEnvelope]
             ELSE IF text = PyNone
             THEN [how |-> Raised("TypeError", ""), data |-> NoEnvelope]
             ELSE [how |-> Returned, data |-> Envelope(text)]

NoValue == [verdict |-> "", confidence |-> "", evidence |-> <<>>, raw_final |-> <<>>]

\* call_adk from the return of _run on
call_adk_after_run(r) ==
    IF r.how.kind = "raise"
    THEN IF r.how.exc = "ADKError"
         THEN [how |-> r.how, value |-> NoValue]
         ELSE [how |-> Raised("ADKError", "unexpected"), value |-> NoValue]
    ELSE LET logs == IF r.data.has_logs THEN r.data.logs ELSE <<>>
         IN  IF logs = <<>>
             THEN [how |-> Raised("ADKError", "missing logs in response"),
                   value |-> NoValue]
             ELSE LET parts == logs[Len(logs)].content.parts
                  IN  IF parts = <<>> \/ ~parts[1].has_text
                      THEN [how |-> Raised("ADKError", "missing final text in response"),
                            value |-> NoValue]
                      ELSE IF OrEmpty(parts[1].text) = PyList
                      THEN [how |-> Raised("AttributeError", ""), value |-> NoValue]
                      ELSE [how |-> Returned,
                            value |-> [verdict |-> verdict(parts[1].text),
                                       confidence |-> confidence(parts[1].text),
                                       evidence |-> <<>>,
                                       raw_final |-> parts[1].text]]

\* ------------------------------------------------------------ query inputs

StreamTexts == {<<>>, <<"a">>, <<"b">>}

Chunks ==
    {<<"l", "e", "g", "i", "t", "i", "m", "a", "t", "e">>,
     <<"L", "e", "g", "i", "t">>,
     <<"i", "m", "a", "t", "e">>,
     <<"v", "e", "r", "d", "i", "c", "t", ":", " ">>,
     <<"T", "R", "U", "E">>,
     <<"V", "e", "r", "d", "i", "c", "t", ":", " ", "T", "r", "u", "e">>,
     <<"c", "o", "n", "f", "i", "d", "e", "n", "c", "e", ":", " ", "1">>,
     <<".", "0">>,
     <<"C", "o", "n", "f", "i", "d", "e", "n", "c", "e", ":", " ", "1", ".", "0">>,
     <<"i", "l">>,
     <<"n", "o">>}

RECURSIVE Concat(_)
Concat(ss) == IF ss = <<>> THEN <<>> ELSE Head(ss) \o Concat(Tail(ss))

SeqsUpTo(S, n) == UNION {[1..k -> S] : k \in 0..n}

ClassifyTexts == {Concat(cs) : cs \in SeqsUpTo(Chunks, MaxChunks)}

NoTextPart == [has_text |-> FALSE, text |-> <<>>]
TextPart(t) == [has_text |-> TRUE, text |-> t]
Parts == {NoTextPart} \cup {TextPart(t) : t \in StreamTexts \cup {PyNone, PyList}}

Fragment(ps) == [kind |-> "fragment", parts |-> ps]
Lines ==
    {[kind |-> k, parts |-> <<>>] :
        k \in {"empty", "space", "garbage", "unloadable", "nonobject", "badshape",
               "oddparts"}}
    \cup {Fragment(ps) : ps \in SeqsUpTo(Parts, MaxParts)}

Streams == SeqsUpTo(Lines, MaxLines)
ClassifyStreams == {<<Fragment(<<TextPart(t)>>)>> : t \in ClassifyTexts}
DecodeStreams == Streams \cup ClassifyStreams

\* the streams the refresher's specification serves
FewStreams == {<<>>, <<Fragment(<<TextPart(<<"a">>)>>)>>}

\* ---------------------------------------------------------------- metadata
\* metadata.user is absent, null, an object, or a value that is no object:
\* "falsy" when Python takes it for false ('', [], 0, False), "nondict" when it
\* does not ('bob', ['bob']).  An object may have the keys wa_from and id, each
\* null, empty or a name.

PyNoneValue == "<None>"
NoKey == [present |-> FALSE, value |-> PyNoneValue]
Key(v) == [present |-> TRUE, value |-> v]
KeysOf(name) == {NoKey} \cup {Key(v) : v \in {PyNoneValue, "", name}}

EmptyMetadata == [user |-> "absent", wa_from |-> NoKey, id |-> NoKey]
Metadatas ==
    {[user |-> u, wa_from |-> NoKey, id |-> NoKey] : u \in {"absent", "null", "falsy", "nondict"}}
    \cup {[user |-> "dict", wa_from |-> w, id |-> i] : w \in KeysOf("w1"), i \in KeysOf("i1")}

\* dict.get(key): the value, None when the key is absent
Get(key) == IF key.present THEN key.value ELSE PyNoneValue

\* the truth value of a string or None
Truthy(v) == v \notin {PyNoneValue, ""}

\* the id taken first, wa_from second
user_id_mut(metadata) ==
    IF metadata.user # "dict" THEN "anonymous"
    ELSE IF Truthy(Get(metadata.id)) THEN Get(metadata.id)
    ELSE IF Truthy(Get(metadata.wa_from)) THEN Get(metadata.wa_from)
    ELSE "anonymous"

\* user = metadata.get("user") or {}
\* user_id = user.get("wa_from") or user.get("id") or "anonymous"
user_id(metadata) ==
    IF metadata.user # "dict" THEN "anonymous"
    ELSE IF Truthy(Get(metadata.wa_from)) THEN Get(metadata.wa_from)
    ELSE IF Truthy(Get(metadata.id)) THEN Get(metadata.id)
    ELSE "anonymous"

NoRequest == [token |-> None, read_at |-> None, at |-> None, user_id |-> ""]
NoInput == [transport |-> "none", stream |-> <<>>, brk |-> None]
NoResult == [how |-> [kind |-> "none", exc |-> "", msg |-> ""], value |-> NoValue]

\* ------------------------------------------------------------ call_adk, _run

\* a token kept in one module-level variable that every call shares
ReadToken_mut(c) == [d \in Clients |-> env]

\* token = os.getenv("GCP_ACCESS_TOKEN"), a local of the call
ReadToken(c) == [q_token EXCEPT ![c] = env]

\* call_adk up to _run's `token = os.getenv(...)`; `if not token: raise`.
\* `metadata.get("user") or {}` puts {} for every user that is false; a user that
\* is true and no object has no get(): line 116 raises before the try.
QBegin(c, metas) ==
    /\ q_pc[c] = "idle"
    /\ \E m \in metas :
          /\ q_meta' = [q_meta EXCEPT ![c] = m]
          /\ IF m.user = "nondict"
             THEN /\ q_pc' = [q_pc EXCEPT ![c] = "done"]
                  /\ q_result' = [q_result EXCEPT ![c] =
                         [how |-> Raised("AttributeError", ""), value |-> NoValue]]
                  /\ UNCHANGED <<q_token, q_read_at>>
             ELSE /\ q_token' = ReadToken(c)
                  /\ q_read_at' = [q_read_at EXCEPT ![c] = now]
                  /\ IF Falsy(env)
                     THEN /\ q_pc' = [q_pc EXCEPT ![c] = "done"]
                          /\ q_result' = [q_result EXCEPT ![c] =
                                 [how |-> Raised("ADKError", "Missing GCP access token"),
                                  value |-> NoValue]]
                     ELSE /\ q_pc' = [q_pc EXCEPT ![c] = "Q56"]
                          /\ UNCHANGED q_result
    /\ UNCHANGED <<now, late, refresher_vars, q_sent, q_input, q_data>>

\* requests.post is called: the request leaves with the bearer token, and the
\* call waits for the response
QSend(c) ==
    /\ q_pc[c] = "Q56"
    /\ q_sent' = [q_sent EXCEPT ![c] =
           [token |-> q_token[c], read_at |-> q_read_at[c], at |-> now,
            user_id |-> user_id(q_meta[c])]]
    /\ q_pc' = [q_pc EXCEPT ![c] = "sent"]
    /\ UNCHANGED <<now, late, refresher_vars, q_meta, q_token, q_read_at, q_input,
                   q_data, q_result>>

\* the response: the decode loop and call_adk to its end
Deliver(c, inp) ==
    /\ q_input' = [q_input EXCEPT ![c] = inp]
    /\ q_data' = [q_data EXCEPT ![c] = run(inp.transport, inp.stream, inp.brk).data]
    /\ q_result' = [q_result EXCEPT ![c] =
           call_adk_after_run(run(inp.transport, inp.stream, inp.brk))]

\* the post times out or fails, or opens a stream that is read to its end or
\* breaks; whatever the other threads did since the request left
QReceive(c, streams) ==
    /\ q_pc[c] = "sent"
    /\ \/ \E tr \in FailedTransports :
              Deliver(c, [transport |-> tr, stream |-> <<>>, brk |-> None])
       \/ \E s \in streams : \E k \in {None} \cup 0..Len(s) :
              Deliver(c, [transport |-> "ok", stream |-> s, brk |-> k])
    /\ q_pc' = [q_pc EXCEPT ![c] = "done"]
    /\ UNCHANGED <<now, late, refresher_vars, q_meta, q_token, q_read_at, q_sent>>

\* the caller takes the result; the client is free for its next call
QReturn(c) ==
    /\ q_pc[c] = "done"
    /\ q_pc' = [q_pc EXCEPT ![c] = "idle"]
    /\ q_meta' = [q_meta EXCEPT ![c] = EmptyMetadata]
    /\ q_token' = [q_token EXCEPT ![c] = None]
    /\ q_read_at' = [q_read_at EXCEPT ![c] = None]
    /\ q_sent' = [q_sent EXCEPT ![c] = NoRequest]
    /\ q_input' = [q_input EXCEPT ![c] = NoInput]
    /\ q_data' = [q_data EXCEPT ![c] = NoEnvelope]
    /\ q_result' = [q_result EXCEPT ![c] = NoResult]
    /\ UNCHANGED <<now, late, refresher_vars>>

\* the envelopes a _run that is not this module's could hand to call_adk: the
\* key "logs" absent, or a list of entries whose content.parts is a list of parts
ForeignEnvelopes ==
    {NoEnvelope} \cup
    {[has_logs |-> TRUE, logs |-> ls] :
        ls \in SeqsUpTo({[content |-> [parts |-> ps]] : ps \in SeqsUpTo(Parts, MaxParts)},
                        MaxLines)}

\* call_adk with _run replaced (a test double): no token is read, no request is
\* sent, and the double's return value is the envelope
QStub(c) ==
    /\ q_pc[c] = "idle"
    /\ \E e \in ForeignEnvelopes :
          /\ q_data' = [q_data EXCEPT ![c] = e]
          /\ q_result' = [q_result EXCEPT ![c] =
                 call_adk_after_run([how |-> Returned, data |-> e])]
    /\ q_input' = [q_input EXCEPT ![c] = [transport |-> "stub", stream |-> <<>>, brk |-> None]]
    /\ q_pc' = [q_pc EXCEPT ![c] = "done"]
    /\ UNCHANGED <<now, late, refresher_vars, q_meta, q_token, q_read_at, q_sent>>

\* ------------------------------------------------------------ specifications

QueryInit ==
    /\ q_pc = [c \in Clients |-> "idle"]
    /\ q_meta = [c \in Clients |-> EmptyMetadata]
    /\ q_token = [c \in Clients |-> None]
    /\ q_read_at = [c \in Clients |-> None]
    /\ q_sent = [c \in Clients |-> NoRequest]
    /\ q_input = [c \in Clients |-> NoInput]
    /\ q_data = [c \in Clients |-> NoEnvelope]
    /\ q_result = [c \in Clients |-> NoResult]

\* the process as schedule_refresh(interval) is called
Init ==
    /\ now = 0
    /\ late = FALSE
    /\ interval \in {BadInterval} \cup 1..MaxInterval
    /\ host_tz \in TimeZones
    /\ token_data = InitialTokenData
    /\ env \in {None, PresetToken}
    /\ sched_pc = "S32"
    /\ loop_pc = "none"
    /\ rt_pc = [t \in Threads |-> "idle"]
    /\ creds = [t \in Threads |-> NoCreds]
    /\ wake_at = 0
    /\ sleeps = 0
    /\ slept_at = 0
    /\ attempts = 0
    /\ outcome = "none"
    /\ snap = [access_token |-> None, expiry |-> 0, env |-> env]
    /\ any_failed = FALSE
    /\ any_ok = FALSE
    /\ QueryInit

Refresher ==
    \/ SchedStart
    \/ SchedSpawn
    \/ SchedReturn
    \/ LoopSleep
    \/ LoopWake
    \/ \E t \in Threads : LoadCredentials(t)
    \/ \E t \in Threads : FetchToken(t)
    \/ \E t \in Threads : StoreToken(t)
    \/ \E t \in Threads : StoreExpiry(t)
    \/ \E t \in Threads : PublishEnv(t)
    \/ \E t \in Threads : PrintRefreshed(t)

Next ==
    \/ Refresher
    \/ Tick
    \/ \E c \in Callers : QBegin(c, {EmptyMetadata})
    \/ \E c \in Callers : QSend(c)
    \/ \E c \in Callers : QReceive(c, FewStreams)
    \/ \E c \in Callers : QReturn(c)

Spec == Init /\ [][Next]_vars

\* the refresher and the clock alone, under fair scheduling: a thread that can
\* take a step takes one, and the clock goes on
RefresherNext ==
    \/ Refresher
    \/ Tick

FairSpec == Init /\ [][RefresherNext]_vars /\ WF_vars(Refresher) /\ WF_vars(Tick)

\* the query client alone, the scheduler never called: the environment gives
\* the token, or gives none
DecodeInit ==
    /\ now = 0
    /\ late = FALSE
    /\ interval = 1
    /\ host_tz = "UTC"
    /\ token_data = InitialTokenData
    /\ env \in {None, EmptyString, Token(0)}
    /\ sched_pc = "S32"
    /\ loop_pc = "none"
    /\ rt_pc = [t \in Threads |-> "idle"]
    /\ creds = [t \in Threads |-> NoCreds]
    /\ wake_at = 0
    /\ sleeps = 0
    /\ slept_at = 0
    /\ attempts = 0
    /\ outcome = "none"
    /\ snap = [access_token |-> None, expiry |-> 0, env |-> env]
    /\ any_failed = FALSE
    /\ any_ok = FALSE
    /\ QueryInit

DecodeNext ==
    \/ \E c \in Callers : QBegin(c, {EmptyMetadata})
    \/ \E c \in Callers : QSend(c)
    \/ \E c \in Callers : QReceive(c, DecodeStreams)
    \/ \E c \in Callers : QReturn(c)

DecodeSpec == DecodeInit /\ [][DecodeNext]_vars

\* call_adk over every metadata
CallNext ==
    \/ \E c \in Callers : QBegin(c, Metadatas)
    \/ \E c \in Callers : QSend(c)
    \/ \E c \in Callers : QReceive(c, FewStreams)
    \/ \E c \in Callers : QReturn(c)

CallSpec == DecodeInit /\ [][CallNext]_vars

\* call_adk over the envelopes of _run and of a replaced _run
EnvelopeNext ==
    \/ \E c \in Callers : QBegin(c, {EmptyMetadata})
    \/ \E c \in Callers : QSend(c)
    \/ \E c \in Callers : QReceive(c, DecodeStreams)
    \/ \E c \in Callers : QStub(c)
    \/ \E c \in Callers : QReturn(c)

EnvelopeSpec == DecodeInit /\ [][EnvelopeNext]_vars

\* schedule_refresh up to the loop's first sleep, with two calls of call_adk in
\* flight beside it; the clock stands still
ConcurrentNext ==
    \/ SchedStart
    \/ SchedSpawn
    \/ SchedReturn
    \/ LoopSleep
    \/ \E t \in Threads : LoadCredentials(t)
    \/ \E t \in Threads : FetchToken(t)
    \/ \E t \in Threads : StoreToken(t)
    \/ \E t \in Threads : StoreExpiry(t)
    \/ \E t \in Threads : PublishEnv(t)
    \/ \E t \in Threads : PrintRefreshed(t)
    \/ \E c \in Clients : QBegin(c, {EmptyMetadata})
    \/ \E c \in Clients : QSend(c)
    \/ \E c \in Clients : QReceive(c, FewStreams)
    \/ \E c \in Clients : QReturn(c)

ConcurrentSpec == Init /\ [][ConcurrentNext]_vars

TypeOK ==
    /\ now \in 0..MaxTime
    /\ interval \in {BadInterval} \cup 1..MaxInterval
    /\ host_tz \in TimeZones
    /\ sched_pc \in {"S32", "S34", "S50", "started", "returned", "raised"}
    /\ loop_pc \in {"none", "L41", "L42", "L45", "dead"}
    /\ \A t \in Threads : rt_pc[t] \in {"idle", "R16", "R19", "R21", "R22", "R25", "R27"}
    /\ outcome \in {"none", "running", "ok", "failed"}
    /\ any_ok \in BOOLEAN
    /\ \A c \in Clients : q_pc[c] \in {"idle", "Q56", "sent", "done"}

\* ================================================================== claims

\* the credential a refresh_token() call in thread t is writing
NewCredential(t) ==
    [access_token |-> creds[t].token,
     expiry |-> timestamp(creds[t].expiry, host_tz),
     env |-> creds[t].token]

\* C1: while a refresh_token() call runs, whoever reads access_token, expiry and
\* GCP_ACCESS_TOKEN sees the credential as it stood before the call or the one
\* the call writes, never a mix of the two.
C1_NoTornCredential ==
    \A t \in Threads :
        rt_pc[t] # "idle" => (Credential = snap \/ Credential = NewCredential(t))

\* C2: with interval below the validity window, every request sent carries a
\* token whose expiry is later than the moment of sending.
C2_NeverSendsExpired ==
    \A c \in Clients :
        (q_sent[c] # NoRequest /\ interval < Validity)
            => TokenExpiry(q_sent[c].token) > q_sent[c].at

\* C2 as amended: the same, for requests that carry a token a refresh of this
\* process published, sent while no refresh attempt has failed, the refresher
\* has not fallen behind the clock, and _run sends at the instant it read the
\* token.
C2_FreshWhileRefreshesSucceed ==
    \A c \in Clients :
        ( /\ q_sent[c] # NoRequest
          /\ q_sent[c].token # PresetToken
          /\ interval < Validity
          /\ ~any_failed
          /\ ~late
          /\ q_sent[c].read_at = q_sent[c].at )
            => TokenExpiry(q_sent[c].token) > q_sent[c].at

\* C2's case: a request goes out, on time, with a token a periodic refresh of the
\* background loop published
C2_Witness ==
    \E c \in Clients :
        /\ q_sent[c] # NoRequest
        /\ interval < Validity
        /\ ~any_failed
        /\ ~late
        /\ q_sent[c].read_at = q_sent[c].at
        /\ attempts >= 2
        /\ q_sent[c].token = Token(q_sent[c].at)
        /\ q_sent[c].at >= interval

\* C3: a refresh_token() call that raised left access_token, expiry and
\* GCP_ACCESS_TOKEN as they were when it began, and the failure has left
\* neither schedule_refresh nor the loop.
C3_FailureKeepsCredential ==
    outcome = "failed" =>
        (Credential = snap /\ sched_pc # "raised" /\ loop_pc # "dead")

\* C4: under fair scheduling every failed refresh_token() call, the startup one
\* included, is followed by the loop's next sleep, every such sleep that ends
\* within the clock's horizon is followed by the next refresh attempt, and the
\* loop is never terminated.
C4_FailedCycleIsFollowed ==
    /\ \A n \in 1..(MaxTime + 1) :
          (outcome = "failed" /\ attempts = n)
              ~> ((loop_pc = "L42" /\ attempts = n) \/ attempts > n)
    /\ \A n \in 1..(MaxTime + 1) :
          (outcome = "failed" /\ attempts = n /\ loop_pc = "L42" /\ wake_at <= MaxTime)
              ~> (attempts = n + 1)
    /\ [](loop_pc # "dead")
    /\ [][loop_pc # "none" => loop_pc' # "none"]_vars

\* a call whose post succeeded and whose stream was read to its end
Streamed(c) ==
    /\ q_pc[c] = "done"
    /\ q_input[c].transport = "ok"
    /\ q_input[c].brk = None

\* the texts of a stream's parts that have one, in stream order
RECURSIVE TextsIn(_)
TextsIn(stream) ==
    IF stream = <<>>
    THEN <<>>
    ELSE LET ps == IF Head(stream).kind = "fragment" THEN Head(stream).parts ELSE <<>>
             here == SelectSeq(ps, LAMBDA p : p.has_text)
         IN  [i \in 1..Len(here) |-> here[i].text] \o TextsIn(Tail(stream))

\* the last non-empty text of a stream, "" when it has none
LastNonEmptyText(stream) ==
    LET full == SelectSeq(TextsIn(stream), LAMBDA t : t \notin {<<>>, PyNone, PyList})
    IN  IF full = <<>> THEN <<>> ELSE full[Len(full)]

\* C5: the final answer of a call that returned is the text of the last fragment
\* that has a non-empty text part, whatever precedes and whatever empty or
\* text-less fragments follow.
C5_LastNonEmptyWins ==
    \A c \in Clients :
        (Streamed(c) /\ q_result[c].how.kind = "return")
            => q_result[c].value.raw_final = LastNonEmptyText(q_input[c].stream)

\* C6: a call whose transport failed, at the post or while the lines were read,
\* raises ADKError('http_error').
C6_TransportFailureIsHttpError ==
    \A c \in Clients :
        ( /\ q_pc[c] = "done"
          /\ \/ q_input[c].transport \in {"connection_error", "bad_status"}
             \/ q_input[c].brk # None )
            => q_result[c].how = Raised("ADKError", "http_error")

\* a line that is a well-formed fragment: a JSON object whose text parts are strings
WellFormed(line) ==
    /\ line.kind = "fragment"
    /\ \A i \in 1..Len(line.parts) : line.parts[i].text \notin {PyNone, PyList}

\* C7: a call whose stream was read to its end returns, and its final answer is
\* that of the same stream without the lines that are no well-formed fragment.
C7_MalformedLinesAreDiscarded ==
    \A c \in Clients :
        Streamed(c)
            => /\ q_result[c].how.kind = "return"
               /\ q_result[c].value.raw_final =
                      LET kept == SelectSeq(q_input[c].stream,
                                            LAMBDA l : IsBlank(l) \/ WellFormed(l))
                          texts == TextsIn(kept)
                      IN  IF texts = <<>> THEN <<>> ELSE texts[Len(texts)]

\* a stream with no parseable fragment: empty, or blank and unparseable lines only
NothingParseable(stream) ==
    \A i \in 1..Len(stream) :
        stream[i].kind \in {"empty", "space", "garbage", "unloadable"}

\* C8: a call whose stream holds no parseable fragment returns verdict
\* 'unverified', confidence 0.5, no evidence and the empty final answer.
C8_NothingParseableIsUnverified ==
    \A c \in Clients :
        (Streamed(c) /\ NothingParseable(q_input[c].stream))
            => q_result[c] = [how |-> Returned,
                              value |-> [verdict |-> "unverified",
                                         confidence |-> "0.5",
                                         evidence |-> <<>>,
                                         raw_final |-> <<>>]]

\* C9: a call that found GCP_ACCESS_TOKEN unset or empty has ended with
\* ADKError('Missing GCP access token') and has sent no request; no other call
\* ends with that error.
C9_MissingTokenSendsNothing ==
    \A c \in Clients :
        /\ (q_pc[c] # "idle" /\ q_token[c] \in {None, EmptyString})
              => /\ q_pc[c] = "done"
                 /\ q_result[c].how = Raised("ADKError", "Missing GCP access token")
                 /\ q_sent[c] = NoRequest
                 /\ q_input[c] = NoInput
        /\ q_result[c].how.msg = "Missing GCP access token"
              => q_token[c] \in {None, EmptyString}

\* C9's case: a call found the variable set to the empty string
C9_Witness ==
    \E c \in Clients :
        /\ q_pc[c] = "done"
        /\ q_token[c] = EmptyString
        /\ q_result[c].how.kind = "raise"

\* the character c is the lower-case character k, in either case
IsLetter(c, k) ==
    c = k \/ \E i \in 1..Len(LowerCase) : LowerCase[i] = k /\ UpperCase[i] = c

\* the text holds the lower-case phrase at some place, whatever the case of its
\* characters
Mentions(text, phrase) ==
    \E k \in 1..Len(text) :
        /\ k + Len(phrase) - 1 <= Len(text)
        /\ \A j \in 1..Len(phrase) : IsLetter(text[k + j - 1], phrase[j])

\* C10: the verdict is 'verified' exactly when the text mentions 'legitimate' or
\* 'verdict: true' in any case, else 'unverified'; the confidence is 1.0 exactly
\* when it mentions 'confidence: 1.0', else 0.5; an absent text gives
\* 'unverified' and 0.5.
C10_Classification ==
    /\ \A c \in Clients :
          (q_pc[c] = "done" /\ q_result[c].how.kind = "return")
              => LET text == q_result[c].value.raw_final
                 IN  /\ q_result[c].value.verdict =
                            IF \/ Mentions(text, kw_legitimate)
                               \/ Mentions(text, kw_verdict_true)
                            THEN "verified"
                            ELSE "unverified"
                     /\ q_result[c].value.confidence =
                            IF Mentions(text, kw_confidence) THEN "1.0" ELSE "0.5"
    /\ verdict(PyNone) = "unverified"
    /\ confidence(PyNone) = "0.5"

\* C10's case: a text in capitals that states the confidence and no verdict
C10_Witness ==
    \E c \in Clients :
        /\ q_pc[c] = "done"
        /\ q_result[c].how.kind = "return"
        /\ q_result[c].value.raw_final # lower(q_result[c].value.raw_final)
        /\ q_result[c].value.verdict = "unverified"
        /\ q_result[c].value.confidence = "1.0"

\* C11: no refresh_token() call leaves token_data["expiry"] earlier than it found
\* it, and a call that raised leaves it as it found it.
C11_ExpiryNeverGoesBack ==
    /\ token_data.expiry >= snap.expiry
    /\ outcome = "failed" => token_data.expiry = snap.expiry

\* C14: at most one execution of refresh_token() is in progress, the startup
\* refresh of the caller and the periodic refreshes of the loop counted together.
C14_RefreshesAreSequential ==
    ~(rt_pc["main"] # "idle" /\ rt_pc["loop"] # "idle")

\* a periodic refresh is running after the startup refresh has ended
C14_Witness ==
    /\ rt_pc["loop"] \in {"R21", "R22", "R25"}
    /\ rt_pc["main"] = "idle"
    /\ attempts >= 2

\* C18: whenever no refresh_token() call is in progress and some call has
\* returned, GCP_ACCESS_TOKEN is token_data["access_token"] and
\* token_data["expiry"] is the expiry issued with that token; a published token
\* is replaced by later refreshes and never cleared.
C18_PublishedIsStored ==
    /\ (any_ok /\ \A t \in Threads : rt_pc[t] = "idle") =>
            /\ IsToken(env)
            /\ env = token_data.access_token
            /\ token_data.expiry = TokenExpiry(token_data.access_token)
    /\ IsToken(snap.env) => IsToken(env)

\* the answer the decode loop is left with: the text appended last, "" when none
FinalizedAnswer(stream) ==
    LET ts == TextsIn(stream)
    IN  IF ts = <<>> THEN <<>> ELSE ts[Len(ts)]

\* a stream of one fragment that has one text part
SingleFragment(stream) ==
    /\ Len(stream) = 1
    /\ stream[1].kind = "fragment"
    /\ Len(stream[1].parts) = 1
    /\ stream[1].parts[1].has_text

\* C13: a call that returns gives as raw_final the answer the decode loop
\* produced for its stream (the fragment's text when the stream is one fragment)
\* and an empty evidence: wrapping in _run and unwrapping in call_adk lose nothing.
C13_RoundTripIsLossless ==
    \A c \in Clients :
        (q_pc[c] = "done" /\ q_result[c].how.kind = "return") =>
            /\ q_result[c].value.raw_final = FinalizedAnswer(q_input[c].stream)
            /\ q_result[c].value.evidence = <<>>
            /\ SingleFragment(q_input[c].stream) =>
                   q_result[c].value.raw_final = q_input[c].stream[1].parts[1].text

\* C13's case: a one-fragment stream whose text has capitals came back as it was
C13_Witness ==
    \E c \in Clients :
        /\ q_pc[c] = "done"
        /\ q_result[c].how.kind = "return"
        /\ SingleFragment(q_input[c].stream)
        /\ Len(q_result[c].value.raw_final) > 1
        /\ q_result[c].value.raw_final # lower(q_result[c].value.raw_final)
        /\ q_result[c].value.raw_final = q_input[c].stream[1].parts[1].text

\* C16: a call_adk that fails raises ADKError: the ADKErrors of _run as they are
\* (missing token, timeout, http_error), ADKError('unexpected') for any other
\* exception of _run; and the call has sent at most one request.
C16_EveryFailureIsADKError ==
    \A c \in Clients :
        (q_pc[c] = "done" /\ q_result[c].how.kind = "raise") =>
            /\ q_result[c].how.exc = "ADKError"
            /\ q_input[c].transport = "timeout" =>
                   q_result[c].how.msg = "timeout"
            /\ q_input[c].transport \in {"connection_error", "bad_status"} =>
                   q_result[c].how.msg = "http_error"
            /\ Falsy(q_token[c]) =>
                   (q_result[c].how.msg = "Missing GCP access token" /\ q_sent[c] = NoRequest)
            /\ (q_input[c].transport = "ok" /\ run("ok", q_input[c].stream, q_input[c].brk).how.kind = "raise") =>
                   q_result[c].how.msg = "unexpected"

\* a call that has sent its request
Sent(c) == q_pc[c] = "done" /\ q_sent[c] # NoRequest

\* a call whose metadata has no user block or a null one
NoUser(c) == q_meta[c].user \in {"absent", "null"}

\* C12: the user id sent is metadata.user.wa_from if that key is present,
\* otherwise metadata.user.id if that key is present, otherwise 'anonymous';
\* metadata with no user block or a null user sends 'anonymous' without an error.
C12_PresentKeyWins ==
    \A c \in Clients :
        /\ Sent(c) =>
             q_sent[c].user_id =
                IF q_meta[c].user = "dict" /\ q_meta[c].wa_from.present
                THEN q_meta[c].wa_from.value
                ELSE IF q_meta[c].user = "dict" /\ q_meta[c].id.present
                THEN q_meta[c].id.value
                ELSE "anonymous"
        /\ (q_pc[c] = "done" /\ NoUser(c) /\ ~Falsy(q_token[c])) =>
             (Sent(c) /\ q_sent[c].user_id = "anonymous")

\* a key that is present with a value that is neither null nor empty
Filled(key) == key.present /\ key.value # PyNoneValue /\ key.value # ""

\* a call whose metadata has no user block, a null user, a user Python takes for
\* false, or a user object without keys: `metadata.get("user") or {}` is {}
EmptyUser(c) ==
    \/ q_meta[c].user \in {"absent", "null", "falsy"}
    \/ q_meta[c] = [user |-> "dict", wa_from |-> NoKey, id |-> NoKey]

\* C12 as the code has it: the user id sent is wa_from if that key holds a value
\* that is neither null nor empty, otherwise id under the same condition,
\* otherwise 'anonymous'; no user block, a null user, a user that is false or an
\* empty user object sends 'anonymous' without an error.
C12_FilledKeyWins ==
    \A c \in Clients :
        /\ Sent(c) =>
             q_sent[c].user_id =
                IF q_meta[c].user = "dict" /\ Filled(q_meta[c].wa_from)
                THEN q_meta[c].wa_from.value
                ELSE IF q_meta[c].user = "dict" /\ Filled(q_meta[c].id)
                THEN q_meta[c].id.value
                ELSE "anonymous"
        /\ (q_pc[c] = "done" /\ EmptyUser(c) /\ ~Falsy(q_token[c])) =>
             (Sent(c) /\ q_sent[c].user_id = "anonymous")

\* C12's case: wa_from is present and empty, and the id was sent
C12_Witness ==
    \E c \in Clients :
        /\ Sent(c)
        /\ q_meta[c].user = "dict"
        /\ q_meta[c].wa_from = Key("")
        /\ q_meta[c].id = Key("i1")
        /\ q_sent[c].user_id = "i1"

\* a call whose _run returned an envelope
RunReturned(c) ==
    /\ q_pc[c] = "done"
    /\ q_input[c].transport = "ok"
    /\ q_data[c] # NoEnvelope

\* a call whose envelope came from a replaced _run
Stubbed(c) == q_pc[c] = "done" /\ q_input[c].transport = "stub"

EnvelopeErrors == {"missing logs in response", "missing final text in response"}

\* C19: an envelope _run returned has exactly one log entry with exactly one text
\* part, so call_adk raises neither 'missing logs in response' nor 'missing final
\* text in response' after it; those arise only for an envelope that is not
\* _run's, and one with no logs or empty logs raises 'missing logs in response'.
C19_EnvelopeErrorsNeedForeignEnvelope ==
    \A c \in Clients :
        /\ RunReturned(c) =>
             /\ q_data[c].has_logs
             /\ Len(q_data[c].logs) = 1
             /\ Len(q_data[c].logs[1].content.parts) = 1
             /\ q_data[c].logs[1].content.parts[1].has_text
             /\ q_result[c].how.msg \notin EnvelopeErrors
        /\ (q_pc[c] = "done" /\ q_result[c].how.msg \in EnvelopeErrors) => Stubbed(c)
        /\ (Stubbed(c) /\ (~q_data[c].has_logs \/ q_data[c].logs = <<>>)) =>
             q_result[c].how = Raised("ADKError", "missing logs in response")

\* C19's case: a stream without any text was decoded, and the envelope of the
\* empty answer still has its log entry and its text part
C19_Witness ==
    \E c \in Clients :
        /\ RunReturned(c)
        /\ Len(q_input[c].stream) = 2
        /\ TextsIn(q_input[c].stream) = <<>>
        /\ q_data[c].logs[1].content.parts[1].text = <<>>
        /\ q_result[c].how.kind = "return"

\* refresh attempts made by the caller of schedule_refresh, and sleeps under way
StartupAttempts == IF sched_pc = "S32" THEN 0 ELSE 1
SleepsUnderWay == IF loop_pc = "L42" THEN 1 ELSE 0

\* one attempt at startup before any wait, then one wait of `interval` before
\* each later attempt
Cadence ==
    /\ attempts = StartupAttempts + sleeps - SleepsUnderWay
    /\ sleeps >= 1 => attempts >= 1
    /\ loop_pc = "L45" => now >= slept_at + interval

\* C15: one refresh attempt at startup before any wait, then exactly one wait of
\* `interval` before every later attempt, all of it on the background thread:
\* the caller of schedule_refresh waits on no refresh and no sleep.
C15_AllInBackground ==
    /\ Cadence
    /\ rt_pc["main"] = "idle"

\* the thread has been started: the caller is inside Thread.start() or past it
ThreadStarted == sched_pc \in {"started", "returned"}

\* C15 as the code has it: the startup attempt runs in the caller, and
\* schedule_refresh starts the thread only once that attempt has ended; every
\* sleep and every later attempt runs on the background thread, and
\* schedule_refresh, once the thread is started, can return whatever the thread
\* is doing: it waits on no sleep and no later refresh.
C15_StartupInCaller ==
    /\ Cadence
    /\ rt_pc["main"] # "idle" => (sched_pc = "S34" /\ attempts = 1)
    /\ ThreadStarted => (attempts >= 1 /\ rt_pc["main"] = "idle")
    /\ loop_pc # "none" <=> ThreadStarted
    /\ rt_pc["loop"] # "idle" <=> loop_pc = "L45"
    /\ sleeps >= 1 => ThreadStarted
    /\ sched_pc = "started" => ENABLED SchedReturn

\* C15's case: schedule_refresh has returned and the second periodic attempt
\* begins as its wait ends
C15_Witness ==
    /\ sched_pc = "returned"
    /\ attempts = 3
    /\ sleeps = 2
    /\ loop_pc = "L45"
    /\ rt_pc["loop"] = "R16"
    /\ now = slept_at + interval

\* everything a call of call_adk holds
QueryState(c) ==
    <<q_pc[c], q_meta[c], q_token[c], q_read_at[c], q_sent[c], q_input[c],
      q_data[c], q_result[c]>>

\* C17: a step of a call_adk / _run execution, whether the call succeeds or
\* fails, leaves token_data["access_token"], token_data["expiry"] and
\* GCP_ACCESS_TOKEN as they are, and leaves every other call's state as it is.
C17_QueriesWriteNoCredential ==
    [][\A c \in Clients :
          QueryState(c)' # QueryState(c) =>
              /\ token_data' = token_data
              /\ env' = env
              /\ \A d \in Clients \ {c} : QueryState(d)' = QueryState(d)]_vars

\* C17's case: while a refresh is in progress one call has failed for want of a
\* token and another, begun after the token was published, is about to send
C17_Witness ==
    /\ rt_pc["main"] = "R27"
    /\ q_pc["q1"] = "done"
    /\ q_result["q1"].how = Raised("ADKError", "Missing GCP access token")
    /\ q_pc["q2"] = "Q56"
    /\ q_token["q2"] = env
    /\ IsToken(env)

====
